---- MODULE Spec2Model ----
(***************************************************************************)
(* ChronicleMap: the calendar arithmetic of chroniclemap/core/models.py    *)
(* (GameDate, its two ordinal mappings, its arithmetic and its text form), *)
(* the campaign timeline (Campaign.add_snapshot, to_dict and from_dict),   *)
(* the playback engine of chroniclemap/temporal/engine.py (TemporalEngine, *)
(* whose clock is a standard-library datetime) and the tick of             *)
(* chroniclemap/ui/player_viewmodel.py.                                    *)
(*                                                                         *)
(* Python integers are unbounded, so no width is modelled; `//` and `%`    *)
(* with a positive divisor are floor division and non-negative remainder,  *)
(* which is what \div and % are here.                                      *)
(***************************************************************************)
EXTENDS Integers, Sequences, FiniteSets, TLC

\* ---------------------------------------------------------------- bounds

\* Years within YearRadius of a pivot year are given to the constructor.
YearRadius == 1
\* Ordinals within OrdRadius of January 1 of a pivot year are given to from_ordinal.
OrdRadius == 64
\* The constructor is called with month in 0..MaxMonthArg and day in 0..MaxDayArg.
MaxMonthArg == 13
MaxDayArg == 32
\* add_days is called with -MaxAddDays, -1, 0, 1 and MaxAddDays.
MaxAddDays == 5
\* Snapshot ids are 1..NumIds (the code's ids are uuid4 strings).
NumIds == 3
\* The lookups are made on timelines of at most MaxTimeline snapshots.
MaxTimeline == 3
\* At most MaxCalls calls are made on an engine.
MaxCalls == 4
\* tick is called with 0, 1 and MaxTickSeconds seconds.
MaxTickSeconds == 365

\* Years around which the inputs are drawn: astronomical -400 (historical -401),
\* -100, -4, the BCE/CE boundary, 4, 100, 400, 2000, and the years where the
\* text of a date gets its fifth digit.
PivotYears == {-10000, -401, -101, -5, 0, 4, 100, 400, 2000, 10000}

Years == UNION {(p - YearRadius)..(p + YearRadius) : p \in PivotYears}

MonthArgs == 0..MaxMonthArg

DayArgs == 0..MaxDayArg

AddDaysArgs == {-MaxAddDays, -1, 0, 1, MaxAddDays}

\* ------------------------------------------------- ordinal conversion

GREGORIAN_MONTH_LENGTHS == <<31, 28, 31, 30, 31, 30, 31, 31, 30, 31, 30, 31>>

\* cum[k] of the code (0-based there): the days before month k + 1.
RECURSIVE cum(_)
cum(k) == IF k = 0 THEN 0 ELSE cum(k - 1) + GREGORIAN_MONTH_LENGTHS[k]

\* days_from_civil with the century correction left out (a Julian calendar).
days_from_civil_julian(y, m, d) ==
    LET ya  == IF y < 0 THEN y + 1 ELSE y
        y0  == ya - (IF m <= 2 THEN 1 ELSE 0)
        era == y0 \div 400
        yoe == y0 - era * 400
        mp  == IF m > 2 THEN m - 3 ELSE m + 9
        doy == (153 * mp + 2) \div 5 + d - 1
        doe == yoe * 365 + yoe \div 4 + doy
    IN  era * 146097 + doe - 719468

days_from_civil(y, m, d) ==
    LET ya  == IF y < 0 THEN y + 1 ELSE y
        y0  == ya - (IF m <= 2 THEN 1 ELSE 0)
        era == y0 \div 400
        yoe == y0 - era * 400
        mp  == IF m > 2 THEN m - 3 ELSE m + 9
        doy == (153 * mp + 2) \div 5 + d - 1
        doe == yoe * 365 + yoe \div 4 - yoe \div 100 + doy
    IN  era * 146097 + doe - 719468

\* civil_from_days without the astronomical -> historical shift of years < 1.
civil_from_days_no_shift(z) ==
    LET z1  == z + 719468
        era == z1 \div 146097
        doe == z1 - era * 146097
        yoe == (doe - doe \div 1460 + doe \div 36524 - doe \div 146096) \div 365
        y   == yoe + era * 400
        doy == doe - (365 * yoe + yoe \div 4 - yoe \div 100)
        mp  == (5 * doy + 2) \div 153
        d   == doy - (153 * mp + 2) \div 5 + 1
        m   == IF mp < 10 THEN mp + 3 ELSE mp - 9
        y1  == y + (IF m <= 2 THEN 1 ELSE 0)
    IN  <<y1, m, d>>

civil_from_days(z) ==
    LET z1  == z + 719468
        era == z1 \div 146097
        doe == z1 - era * 146097
        yoe == (doe - doe \div 1460 + doe \div 36524 - doe \div 146096) \div 365
        y   == yoe + era * 400
        doy == doe - (365 * yoe + yoe \div 4 - yoe \div 100)
        mp  == (5 * doy + 2) \div 153
        d   == doy - (153 * mp + 2) \div 5 + 1
        m   == IF mp < 10 THEN mp + 3 ELSE mp - 9
        y1  == y + (IF m <= 2 THEN 1 ELSE 0)
        y2  == IF y1 < 1 THEN y1 - 1 ELSE y1
    IN  <<y2, m, d>>

is_gregorian_leap(year) ==
    LET y == IF year < 0 THEN year + 1 ELSE year
    IN  IF y % 4 # 0 THEN FALSE
        ELSE IF y % 100 # 0 THEN TRUE
        ELSE IF y % 400 = 0 THEN TRUE
        ELSE FALSE

day_of_year_no_leap(year, month, day) == cum(month - 1) + day

\* ------------------------------------------------------------ GameDate

\* The exception GameDate.__post_init__ raises.
ValueError == [error |-> "ValueError"]

\* No object.
None == [error |-> "None"]

\* __post_init__ accepting day 1..28 in February whatever the year.
post_init_ok_no_leap_day(year, month, day) ==
    IF ~(1 <= month /\ month <= 12) THEN FALSE
    ELSE 1 <= day /\ day <= GREGORIAN_MONTH_LENGTHS[month]

\* TRUE iff GameDate.__post_init__ returns without raising.
post_init_ok(year, month, day) ==
    IF ~(1 <= month /\ month <= 12) THEN FALSE
    ELSE LET max_day == IF month = 2 /\ is_gregorian_leap(year)
                        THEN 29
                        ELSE GREGORIAN_MONTH_LENGTHS[month]
         IN  1 <= day /\ day <= max_day

\* GameDate(year, month, day): the frozen dataclass value, or the error raised.
GameDate(year, month, day) ==
    IF post_init_ok(year, month, day)
    THEN [year |-> year, month |-> month, day |-> day]
    ELSE ValueError

IsDate(x) == x # None /\ x # ValueError

\* dataclass(order=True): comparison of the (year, month, day) tuples.
GameDate_lt(a, b) ==
    \/ a.year < b.year
    \/ a.year = b.year /\ a.month < b.month
    \/ a.year = b.year /\ a.month = b.month /\ a.day < b.day

to_ordinal(self, ignore_leap) ==
    IF ~ignore_leap
    THEN days_from_civil(self.year, self.month, self.day)
    ELSE LET doy == day_of_year_no_leap(self.year, self.month, self.day)
             y   == self.year
         IN  IF y > 0 THEN (y - 1) * 365 + (doy - 1)
                      ELSE y * 365 + (doy - 1)

\* from_ordinal whose no-leap branch uses the formula for ordinal >= 0 everywhere.
from_ordinal_one_branch(ordinal, ignore_leap) ==
    IF ~ignore_leap
    THEN LET t == civil_from_days(ordinal) IN GameDate(t[1], t[2], t[3])
    ELSE LET year  == ordinal \div 365 + 1
             doy   == (ordinal % 365) + 1
             hits  == {i \in 1..12 : doy <= cum(i)}
             month == IF hits = {} THEN 1
                      ELSE CHOOSE i \in hits : \A j \in hits : i <= j
             day   == doy - cum(month - 1)
         IN  GameDate(year, month, day)

from_ordinal(ordinal, ignore_leap) ==
    IF ~ignore_leap
    THEN LET t == civil_from_days(ordinal) IN GameDate(t[1], t[2], t[3])
    ELSE LET year  == IF ordinal >= 0
                      THEN ordinal \div 365 + 1
                      ELSE -((-ordinal - 1) \div 365 + 1)
             doy   == IF ordinal >= 0
                      THEN (ordinal % 365) + 1
                      ELSE 365 - ((-ordinal - 1) % 365)
             \* for i in range(1, 13): if doy <= cum[i]: month = i; break
             hits  == {i \in 1..12 : doy <= cum(i)}
             month == IF hits = {} THEN 1
                      ELSE CHOOSE i \in hits : \A j \in hits : i <= j
             day   == doy - cum(month - 1)
         IN  GameDate(year, month, day)

\* The result is from_ordinal's: a date, or the error its construction raises.
add_days(self, days, ignore_leap) ==
    from_ordinal(to_ordinal(self, ignore_leap) + days, ignore_leap)

days_until(self, other, ignore_leap) ==
    to_ordinal(other, ignore_leap) - to_ordinal(self, ignore_leap)

\* ------------------------------------------------------------- Campaign

FilterTypes == {"realms", "faith"}

\* The dates of the snapshots given to add_snapshot: BCE, CE, February 29 of
\* a leap year.
SnapshotDates == {GameDate(-1, 12, 31), GameDate(1, 1, 1), GameDate(2000, 2, 29)}

\* Snapshot: id, date and filter_type (path, thumbnail, align, ocr_extracted
\* and extra take no part in the timeline).
Snapshots == [id : 1..NumIds, date : SnapshotDates, filter_type : FilterTypes]

\* sorted(..., key=lambda s: s.date.to_ordinal(ignore_leap=False))
sort_key(s) == to_ordinal(s.date, FALSE)

\* list.sort is stable: each element goes after the elements already placed
\* whose key is not greater.
RECURSIVE sort_by_ordinal(_)
sort_by_ordinal(list) ==
    IF list = <<>> THEN <<>>
    ELSE LET n      == Len(list)
             x      == list[n]
             before == sort_by_ordinal(SubSeq(list, 1, n - 1))
             k      == Cardinality({i \in 1..(n - 1) : sort_key(before[i]) <= sort_key(x)})
         IN  SubSeq(before, 1, k) \o <<x>> \o SubSeq(before, k + 1, n - 1)

\* add_snapshot that appends and does not sort.
add_snapshot_unsorted(snaps, snapshot) ==
    IF \E i \in 1..Len(snaps) : snaps[i].id = snapshot.id
    THEN [raised |-> TRUE, snapshots |-> snaps]
    ELSE [raised |-> FALSE, snapshots |-> Append(snaps, snapshot)]

\* add_snapshot that appends before it looks for the id.
add_snapshot_append_first(snaps, snapshot) ==
    IF \E i \in 1..Len(snaps) : snaps[i].id = snapshot.id
    THEN [raised |-> TRUE, snapshots |-> Append(snaps, snapshot)]
    ELSE [raised |-> FALSE, snapshots |-> sort_by_ordinal(Append(snaps, snapshot))]

\* Campaign.add_snapshot: whether it raised, and self.snapshots afterwards.
add_snapshot(snaps, snapshot) ==
    IF \E i \in 1..Len(snaps) : snaps[i].id = snapshot.id
    THEN [raised |-> TRUE, snapshots |-> snaps]
    ELSE [raised |-> FALSE, snapshots |-> sort_by_ordinal(Append(snaps, snapshot))]

\* ------------------------------------------------------- dates as text

\* A text is a sequence of characters.
DigitChars == <<"0", "1", "2", "3", "4", "5", "6", "7", "8", "9">>

IsDigit(c) == \E i \in 1..10 : DigitChars[i] = c

digit_value(c) == (CHOOSE i \in 1..10 : DigitChars[i] = c) - 1

\* int(s) of a text of digits.
RECURSIVE int_of(_)
int_of(s) ==
    IF s = <<>> THEN 0
    ELSE int_of(SubSeq(s, 1, Len(s) - 1)) * 10 + digit_value(s[Len(s)])

\* str(n) of n >= 0.
RECURSIVE str_of(_)
str_of(n) ==
    IF n < 10 THEN <<DigitChars[n + 1]>>
    ELSE str_of(n \div 10) \o <<DigitChars[(n % 10) + 1]>>

\* f"{n:0{width}d}" of n >= 0: zeros in front up to the width.
RECURSIVE zero_pad(_, _)
zero_pad(s, width) ==
    IF Len(s) >= width THEN s ELSE zero_pad(<<"0">> \o s, width)

\* to_iso that leaves the sign out.
to_iso_unsigned(self) ==
    LET yy   == IF self.year < 0 THEN -self.year ELSE self.year
        ystr == IF yy <= 9999 THEN zero_pad(str_of(yy), 4) ELSE str_of(yy)
    IN  ystr \o <<"-">> \o zero_pad(str_of(self.month), 2)
             \o <<"-">> \o zero_pad(str_of(self.day), 2)

\* GameDate.to_iso()
to_iso(self) ==
    LET y    == self.year
        sign == IF y < 0 THEN <<"-">> ELSE <<>>
        yy   == IF y < 0 THEN -y ELSE y
        ystr == IF yy <= 9999 THEN sign \o zero_pad(str_of(yy), 4)
                              ELSE sign \o str_of(yy)
    IN  ystr \o <<"-">> \o zero_pad(str_of(self.month), 2)
             \o <<"-">> \o zero_pad(str_of(self.day), 2)

\* str.strip() for the blank.
RECURSIVE strip(_)
strip(s) ==
    IF s = <<>> THEN s
    ELSE IF s[1] = " " THEN strip(Tail(s))
    ELSE IF s[Len(s)] = " " THEN strip(SubSeq(s, 1, Len(s) - 1))
    ELSE s

\* int(year_s): the digits with their sign.
signed_int(negative, s) == IF negative THEN -int_of(s) ELSE int_of(s)

\* GameDate.fromiso(s) of a text s.  DATE_PARSE_REGEX is an optional sign,
\* 1..5 digits, then optionally one of . - / U+5E74 and 1..2 digits, then
\* optionally one of . - / U+6708 and 1..2 digits: the text after the sign is
\* runs of digits around at most two separators.  The text that does not
\* match is tried as digits alone, the last four being month and day.  The
\* two characters outside ASCII are written by their code points.
fromiso(s) ==
    LET text     == strip(s)
        signed   == text # <<>> /\ text[1] \in {"+", "-"}
        negative == text # <<>> /\ text[1] = "-"
        body     == IF signed THEN Tail(text) ELSE text
        n        == Len(body)
        seps     == {i \in 1..n : ~IsDigit(body[i])}
        s1       == CHOOSE i \in seps : \A j \in seps : i <= j
        s2       == CHOOSE i \in seps : \A j \in seps : j <= i
        year_s   == IF seps = {} THEN body ELSE SubSeq(body, 1, s1 - 1)
        mo_s     == IF Cardinality(seps) = 1 THEN SubSeq(body, s1 + 1, n)
                                             ELSE SubSeq(body, s1 + 1, s2 - 1)
        da_s     == SubSeq(body, s2 + 1, n)
        matches  ==
            /\ Cardinality(seps) <= 2
            /\ 1 <= Len(year_s) /\ Len(year_s) <= 5
            /\ seps # {} =>
                  /\ body[s1] \in {".", "-", "/", "U+5E74"}
                  /\ 1 <= Len(mo_s) /\ Len(mo_s) <= 2
            /\ Cardinality(seps) = 2 =>
                  /\ body[s2] \in {".", "-", "/", "U+6708"}
                  /\ 1 <= Len(da_s) /\ Len(da_s) <= 2
    IN  IF text = <<>> THEN ValueError
        ELSE IF matches
        THEN GameDate(signed_int(negative, year_s),
                      IF seps = {} THEN 1 ELSE int_of(mo_s),
                      IF Cardinality(seps) = 2 THEN int_of(da_s) ELSE 1)
        ELSE IF seps = {} /\ 6 <= n /\ n <= 9
        THEN GameDate(signed_int(negative, SubSeq(body, 1, n - 4)),
                      int_of(SubSeq(body, n - 3, n - 2)),
                      int_of(SubSeq(body, n - 1, n)))
        ELSE ValueError

\* Snapshot.to_dict(): the date as text.
Snapshot_to_dict(s) ==
    [id |-> s.id, date |-> to_iso(s.date), filter_type |-> s.filter_type]

\* The values of the enumeration FilterType.
FilterTypeValues == {"realms", "faith", "culture", "custom"}

\* Snapshot.from_dict(data): a missing or empty category (data.get(...) is
\* falsy; "None" stands for the missing key) becomes custom, every other
\* text goes through FilterType(text), which raises ValueError for a text
\* that is not a value of the enumeration.
Snapshot_from_dict(data) ==
    IF data.filter_type \in {"", "None"}
    THEN [id |-> data.id,
          date |-> IF data.date # <<>> THEN fromiso(data.date)
                   ELSE GameDate(1, 1, 1),
          filter_type |-> "custom"]
    ELSE IF data.filter_type \notin FilterTypeValues
    THEN ValueError
    ELSE [id |-> data.id,
          date |-> IF data.date # <<>> THEN fromiso(data.date)
                   ELSE GameDate(1, 1, 1),
          filter_type |-> data.filter_type]

\* Campaign.to_dict(): the snapshots in the order of the timeline.
Campaign_to_dict(snaps) == [i \in 1..Len(snaps) |-> Snapshot_to_dict(snaps[i])]

\* Campaign.from_dict(data): the snapshots read and sorted.
Campaign_from_dict(data) ==
    IF \E i \in 1..Len(data) : Snapshot_from_dict(data[i]) = ValueError
    THEN ValueError
    ELSE sort_by_ordinal([i \in 1..Len(data) |-> Snapshot_from_dict(data[i])])

\* ------------------------------------------------------ TemporalEngine

\* The other exceptions the engine's calls end in.
TypeError == [error |-> "TypeError"]

NotImplementedError == [error |-> "NotImplementedError"]

OverflowError == [error |-> "OverflowError"]

IsError(x) == x \in {ValueError, TypeError, NotImplementedError, OverflowError}

\* datetime.date(year, month, day) of the standard library, which the engine
\* imports as `date`: years 1..9999 of the proleptic Gregorian calendar.  The
\* record carries its class: a datetime.date never equals a GameDate.
date(year, month, day) ==
    IF 1 <= year /\ year <= 9999 /\ post_init_ok(year, month, day)
    THEN [cls |-> "date", year |-> year, month |-> month, day |-> day]
    ELSE ValueError

\* datetime.datetime(year, month, day): midnight of that day.  The time of
\* day is kept in tenths of a day.
datetime(year, month, day) ==
    IF date(year, month, day) = ValueError
    THEN ValueError
    ELSE [cls |-> "datetime", year |-> year, month |-> month, day |-> day,
          tenths |-> 0]

\* datetime.date(): the day without the time of day.
datetime_date(dt) == date(dt.year, dt.month, dt.day)

\* The year, month and day of a date of either class.
ymd(x) == <<x.year, x.month, x.day>>

IsGameDate(x) == IsDate(x) /\ ~IsError(x) /\ DOMAIN x = {"year", "month", "day"}

\* The campaign's playback speed: units and value, the value in tenths of a
\* day per second.
default_playback_speed == [units |-> "days_per_second", value |-> 3650]

\* date_to_no_leap_ordinal(d)
date_to_no_leap_ordinal(d) ==
    LET day_of_year == cum(d.month - 1) + d.day
    IN  (d.year - 1) * 365 + (day_of_year - 1)

\* ordinal_to_date_no_leap(ordinal)
ordinal_to_date_no_leap(n) ==
    LET year        == n \div 365 + 1
        day_of_year == (n % 365) + 1
        month       == CHOOSE i \in 1..12 :
                          /\ day_of_year <= cum(i)
                          /\ \A j \in 1..(i - 1) : day_of_year > cum(j)
        day         == day_of_year - cum(month - 1)
    IN  date(year, month, day)

\* int(round(x)) of x given in tenths: to the nearest integer, a half to the
\* even one.
round_tenths(x10) ==
    LET q == x10 \div 10
        r == x10 % 10
    IN  IF r < 5 THEN q
        ELSE IF r > 5 THEN q + 1
        ELSE IF q % 2 = 0 THEN q ELSE q + 1

\* datetime + timedelta(days): dt moved by adv10 tenths of a day;
\* OverflowError outside years 1..9999.
datetime_add(dt, adv10) ==
    LET total == days_from_civil(dt.year, dt.month, dt.day) * 10 + dt.tenths + adv10
        civil == civil_from_days(total \div 10)
    IN  IF civil[1] < 1 \/ civil[1] > 9999
        THEN OverflowError
        ELSE [cls |-> "datetime", year |-> civil[1], month |-> civil[2],
              day |-> civil[3], tenths |-> total % 10]

\* TemporalEngine(campaign=...): __post_init__ over the campaign's timeline;
\* today is what datetime.utcnow() says when the timeline is empty, and
\* on_time_update is whether a callback is set.
TemporalEngine(snaps, on_time_update, ignore_leap_years, today) ==
    LET d0  == IF snaps # <<>> THEN snaps[1].date ELSE today
        cur == datetime(d0.year, d0.month, d0.day)
    IN  IF cur = ValueError
        THEN ValueError
        ELSE [current_datetime |-> cur, playing |-> FALSE,
              on_time_update |-> on_time_update,
              ignore_leap_years |-> ignore_leap_years]

\* What a call on the engine leaves: the engine, what the call returned or
\* raised, and the dates it gave to on_time_update.
Outcome(e, ret, emitted) == [engine |-> e, ret |-> ret, emitted |-> emitted]

get_current_date(self) == datetime_date(self.current_datetime)

\* if self.on_time_update: self.on_time_update(self.current_datetime.date())
notify(self, cur) ==
    IF self.on_time_update THEN <<datetime_date(cur)>> ELSE <<>>

\* play that flips the flag.
play_toggle(self) ==
    Outcome([self EXCEPT !.playing = ~self.playing], None, <<>>)

play(self) == Outcome([self EXCEPT !.playing = TRUE], None, <<>>)

pause(self) == Outcome([self EXCEPT !.playing = FALSE], None, <<>>)

\* seek that does not call on_time_update.
seek_silent(self, to_date) ==
    LET cur == datetime(to_date.year, to_date.month, to_date.day)
    IN  IF cur = ValueError
        THEN Outcome(self, ValueError, <<>>)
        ELSE Outcome([self EXCEPT !.current_datetime = cur], None, <<>>)

seek(self, to_date) ==
    LET cur == datetime(to_date.year, to_date.month, to_date.day)
    IN  IF cur = ValueError
        THEN Outcome(self, ValueError, <<>>)
        ELSE Outcome([self EXCEPT !.current_datetime = cur], None,
                     notify(self, cur))

\* The current datetime after a tick of days_advance (in tenths of a day),
\* or the exception the arithmetic raised.
advance(self, days_advance) ==
    IF self.ignore_leap_years
    THEN LET cur_date == get_current_date(self)
             cur_ord  == date_to_no_leap_ordinal(cur_date)
             new_ord  == round_tenths(cur_ord * 10 + days_advance)
             new_date == ordinal_to_date_no_leap(new_ord)
         IN  IF new_date = ValueError
             THEN ValueError
             ELSE datetime(new_date.year, new_date.month, new_date.day)
    ELSE datetime_add(self.current_datetime, days_advance)

\* tick that takes every unit for days per second.
tick_any_unit(self, ps, dt_seconds) ==
    LET cur == advance(self, ps.value * dt_seconds)
    IN  IF IsError(cur)
        THEN Outcome(self, cur, <<>>)
        ELSE Outcome([self EXCEPT !.current_datetime = cur], None,
                     notify(self, cur))

\* tick(dt_seconds) under the playback speed ps.
tick(self, ps, dt_seconds) ==
    IF ps.units # "days_per_second"
    THEN Outcome(self, NotImplementedError, <<>>)
    ELSE LET cur == advance(self, ps.value * dt_seconds)
         IN  IF IsError(cur)
             THEN Outcome(self, cur, <<>>)
             ELSE Outcome([self EXCEPT !.current_datetime = cur], None,
                          notify(self, cur))

\* ------------------------------------------------------ snapshot lookup

\* filter_type=None: no filter.
NoFilter == "None"

FilterArgs == FilterTypes \cup {NoFilter}

\* filter_type is None or s.filter_type == filter_type
filter_matches(s, filter_type) ==
    filter_type = NoFilter \/ s.filter_type = filter_type

\* a <= b of two GameDates.
GameDate_le(a, b) == a = b \/ GameDate_lt(a, b)

\* max(candidates, key=lambda s: s.date) and min(...): the first of the
\* candidates with the extreme date, candidates being indices into snaps.
first_max(snaps, candidates) ==
    CHOOSE i \in candidates :
        /\ \A j \in candidates : GameDate_le(snaps[j].date, snaps[i].date)
        /\ \A j \in candidates : j < i => snaps[j].date # snaps[i].date

first_min(snaps, candidates) ==
    CHOOSE i \in candidates :
        /\ \A j \in candidates : GameDate_le(snaps[i].date, snaps[j].date)
        /\ \A j \in candidates : j < i => snaps[j].date # snaps[i].date

\* get_snapshot_for that looks at every record whatever its filter.
get_snapshot_for_any_filter(snaps, d, filter_type, prefer_latest_before) ==
    LET exact      == {i \in 1..Len(snaps) : snaps[i].date = d}
        candidates == {i \in 1..Len(snaps) : GameDate_le(snaps[i].date, d)}
    IN  IF exact # {}
        THEN snaps[CHOOSE i \in exact : \A j \in exact : i <= j]
        ELSE IF ~prefer_latest_before THEN None
        ELSE IF snaps # <<>> /\ ~IsGameDate(d) THEN TypeError
        ELSE IF candidates = {} THEN None
        ELSE snaps[first_max(snaps, candidates)]

\* engine.get_snapshot_for(d, filter_type, prefer_latest_before) over the
\* campaign's snapshots.  s.date == d is False for a d that is no GameDate,
\* and s.date <= d raises TypeError for it.
get_snapshot_for(snaps, d, filter_type, prefer_latest_before) ==
    LET exact      == {i \in 1..Len(snaps) :
                          snaps[i].date = d /\ filter_matches(snaps[i], filter_type)}
        candidates == {i \in 1..Len(snaps) :
                          /\ GameDate_le(snaps[i].date, d)
                          /\ filter_matches(snaps[i], filter_type)}
    IN  IF exact # {}
        THEN snaps[CHOOSE i \in exact : \A j \in exact : i <= j]
        ELSE IF ~prefer_latest_before THEN None
        ELSE IF snaps # <<>> /\ ~IsGameDate(d) THEN TypeError
        ELSE IF candidates = {} THEN None
        ELSE snaps[first_max(snaps, candidates)]

\* engine.next_snapshot_after(d, filter_type): s.date > d raises TypeError
\* for a d that is no GameDate.
next_snapshot_after(snaps, d, filter_type) ==
    LET candidates == {i \in 1..Len(snaps) :
                          /\ GameDate_lt(d, snaps[i].date)
                          /\ filter_matches(snaps[i], filter_type)}
    IN  IF snaps # <<>> /\ ~IsGameDate(d) THEN TypeError
        ELSE IF candidates = {} THEN None
        ELSE snaps[first_min(snaps, candidates)]

\* engine.step_to_next_snapshot(filter_type)
step_to_next_snapshot(self, snaps, filter_type) ==
    LET cur == get_current_date(self)
        nxt == next_snapshot_after(snaps, cur, filter_type)
    IN  IF nxt = TypeError THEN Outcome(self, TypeError, <<>>)
        ELSE IF nxt = None THEN Outcome(self, None, <<>>)
        ELSE LET r == seek(self, nxt.date)
             IN  IF IsError(r.ret) THEN r
                 ELSE Outcome(r.engine, nxt.date, r.emitted)

\* campaign.find_snapshot(target, filter_type): the first record of that
\* date that passes the filter.
find_snapshot(snaps, target, filter_type) ==
    LET exact == {i \in 1..Len(snaps) :
                     snaps[i].date = target /\ filter_matches(snaps[i], filter_type)}
    IN  IF exact = {} THEN None
        ELSE snaps[CHOOSE i \in exact : \A j \in exact : i <= j]

\* get_latest_before that returns the last of the records with the greatest
\* ordinal.
get_latest_before_last_max(snaps, target, filter_type) ==
    LET key(i)     == to_ordinal(snaps[i].date, FALSE)
        candidates == {i \in 1..Len(snaps) :
                          /\ key(i) <= to_ordinal(target, FALSE)
                          /\ filter_matches(snaps[i], filter_type)}
    IN  IF candidates = {} THEN None
        ELSE snaps[CHOOSE i \in candidates :
                      /\ \A j \in candidates : key(j) <= key(i)
                      /\ \A j \in candidates : j > i => key(j) # key(i)]

\* campaign.get_latest_before(target, filter_type): max over the candidates
\* by Real ordinal, which is the first of those with the greatest ordinal.
get_latest_before(snaps, target, filter_type) ==
    LET key(i)     == to_ordinal(snaps[i].date, FALSE)
        candidates == {i \in 1..Len(snaps) :
                          /\ key(i) <= to_ordinal(target, FALSE)
                          /\ filter_matches(snaps[i], filter_type)}
    IN  IF candidates = {} THEN None
        ELSE snaps[CHOOSE i \in candidates :
                      /\ \A j \in candidates : key(j) <= key(i)
                      /\ \A j \in candidates : j < i => key(j) # key(i)]

\* ----------------------------------------------------- PlayerViewModel

\* _current_snapshot_id is None: no snapshot shown.
NoId == 0

\* PlayerViewModel.__init__: no snapshot shown, no filter selected.
PlayerViewModel == [current_snapshot_id |-> NoId, current_filter |-> NoFilter]

\* What a call on the view-model leaves: its engine, its own fields, what the
\* call returned or raised, the dates the engine gave to on_time_update and
\* the signals the view-model emitted.
VmOutcome(e, vm, ret, emitted, signals) ==
    [engine |-> e, vm |-> vm, ret |-> ret, emitted |-> emitted,
     signals |-> signals]

\* _emit_time_and_snapshot() after an engine call that left e and emitted.
emit_time_and_snapshot(vm, e, snaps, emitted) ==
    LET cur_date     == get_current_date(e)
        time_changed == [signal |-> "time_changed", value |-> cur_date]
        snap         == get_snapshot_for(snaps, cur_date, vm.current_filter, TRUE)
        snap_id      == IF snap = None THEN NoId ELSE snap.id
    IN  IF snap = TypeError
        THEN VmOutcome(e, vm, TypeError, emitted, <<time_changed>>)
        ELSE IF snap_id # vm.current_snapshot_id
        THEN VmOutcome(e, [vm EXCEPT !.current_snapshot_id = snap_id], None,
                       emitted,
                       <<time_changed,
                         [signal |-> "snapshot_changed", value |-> snap_id]>>)
        ELSE VmOutcome(e, vm, None, emitted, <<time_changed>>)

\* PlayerViewModel.tick without the test of engine.playing.
vm_tick_unguarded(vm, e, snaps, ps, dt_seconds) ==
    LET r == tick(e, ps, dt_seconds)
    IN  IF IsError(r.ret)
        THEN VmOutcome(r.engine, vm, r.ret, r.emitted, <<>>)
        ELSE emit_time_and_snapshot(vm, r.engine, snaps, r.emitted)

\* PlayerViewModel.tick(dt_seconds)
vm_tick(vm, e, snaps, ps, dt_seconds) ==
    IF ~e.playing
    THEN VmOutcome(e, vm, None, <<>>, <<>>)
    ELSE LET r == tick(e, ps, dt_seconds)
         IN  IF IsError(r.ret)
             THEN VmOutcome(r.engine, vm, r.ret, r.emitted, <<>>)
             ELSE emit_time_and_snapshot(vm, r.engine, snaps, r.emitted)

\* PlayerViewModel.play()
vm_play(vm, e) ==
    VmOutcome(play(e).engine, vm, None, <<>>,
              <<[signal |-> "playing_changed", value |-> TRUE]>>)

\* PlayerViewModel.seek(to_date)
vm_seek(vm, e, snaps, to_date) ==
    LET r == seek(e, to_date)
    IN  IF IsError(r.ret)
        THEN VmOutcome(r.engine, vm, r.ret, r.emitted, <<>>)
        ELSE emit_time_and_snapshot(vm, r.engine, snaps, r.emitted)

\* PlayerViewModel.select_filter(filter_value): None is stored and the call
\* returns; a text is stored as FilterType(text), or as None when that
\* raises, and the snapshot is computed again.
vm_select_filter(vm, e, snaps, filter_value) ==
    IF filter_value = NoFilter
    THEN VmOutcome(e, [vm EXCEPT !.current_filter = NoFilter], None, <<>>, <<>>)
    ELSE emit_time_and_snapshot(
             [vm EXCEPT !.current_filter =
                 IF filter_value \in FilterTypeValues THEN filter_value
                 ELSE NoFilter],
             e, snaps, <<>>)

\* PlayerViewModel.step_to_next_snapshot()
vm_step_to_next_snapshot(vm, e, snaps) ==
    LET r == step_to_next_snapshot(e, snaps, vm.current_filter)
    IN  IF IsError(r.ret)
        THEN VmOutcome(r.engine, vm, r.ret, r.emitted, <<>>)
        ELSE IF r.ret = None
        THEN VmOutcome(r.engine, vm, None, r.emitted, <<>>)
        ELSE LET o == emit_time_and_snapshot(vm, r.engine, snaps, r.emitted)
             IN  IF IsError(o.ret) THEN o ELSE [o EXCEPT !.ret = r.ret]

\* --------------------------------------------------------------- state

VARIABLES
    pc,           \* the last GameDate operation called ("idle": none yet)
    args,         \* <<year, month, day>> given to the constructor
    gd,           \* the GameDate constructed, or None
    ignore_leap,  \* the ignore_leap argument of the last call
    ordinal,      \* the result of to_ordinal, or the argument of from_ordinal
    days,         \* the argument of add_days
    other,        \* the argument of days_until
    result,       \* what from_ordinal, add_days, days_until or fromiso returned
    text,         \* what to_iso returned
    snapshots,    \* Campaign.snapshots
    call,         \* the snapshot given to the last add_snapshot, or None
    raised,       \* whether the last add_snapshot raised
    saved,        \* what Campaign.to_dict returned: the snapshots, dates as text
    engine,       \* the TemporalEngine, or None
    playback_speed, \* campaign.config.playback_speed
    vm,           \* the fields of the PlayerViewModel around the engine
    eop,          \* the last call made on the engine: its name and argument
    eret,         \* what that call returned or raised
    emitted,      \* the dates that call gave to on_time_update
    signals,      \* the signals the view-model emitted in that call
    ncalls        \* the number of calls made on the engine

dateVars == <<pc, args, gd, ignore_leap, ordinal, days, other, result, text>>

campaignVars == <<snapshots, call, raised, saved>>

engineVars == <<engine, playback_speed, vm, eop, eret, emitted, signals, ncalls>>

vars == <<dateVars, campaignVars, engineVars>>

\* No GameDate call made yet; new_campaign(): an empty timeline.
Init ==
    /\ pc = "idle"
    /\ args = <<1, 1, 1>>
    /\ gd = None
    /\ ignore_leap = FALSE
    /\ ordinal = 0
    /\ days = 0
    /\ other = None
    /\ result = None
    /\ text = <<>>
    /\ snapshots = <<>>
    /\ call = None
    /\ raised = FALSE
    /\ saved = <<>>
    /\ engine = None
    /\ playback_speed = default_playback_speed
    /\ vm = PlayerViewModel
    /\ eop = None
    /\ eret = None
    /\ emitted = <<>>
    /\ signals = <<>>
    /\ ncalls = 0

\* ------------------------------------------------- GameDate operations

\* The ordinals given to from_ordinal: around January 1 of each pivot year.
OrdinalArgs(mode) ==
    UNION {(to_ordinal(GameDate(p, 1, 1), mode) - OrdRadius)
             ..(to_ordinal(GameDate(p, 1, 1), mode) + OrdRadius) : p \in PivotYears}

\* The dates given to gd.days_until: the first and last day of the years
\* around gd's.
OtherArgs ==
    {GameDate(y, md[1], md[2]) :
        y \in (gd.year - 1)..(gd.year + 2), md \in {<<1, 1>>, <<12, 31>>}}

\* GameDate(year, month, day)
Construct ==
    /\ pc = "idle"
    /\ \E year \in Years, month \in MonthArgs, day \in DayArgs :
          /\ args' = <<year, month, day>>
          /\ IF post_init_ok(year, month, day)
             THEN pc' = "constructed" /\ gd' = GameDate(year, month, day)
             ELSE pc' = "rejected" /\ gd' = None
    /\ UNCHANGED <<ignore_leap, ordinal, days, other, result, text, campaignVars, engineVars>>

\* gd.to_ordinal(ignore_leap=mode)
ToOrdinal ==
    /\ pc = "constructed"
    /\ \E mode \in BOOLEAN :
          /\ ignore_leap' = mode
          /\ ordinal' = to_ordinal(gd, mode)
    /\ pc' = "to_ordinal"
    /\ UNCHANGED <<args, gd, days, other, result, text, campaignVars, engineVars>>

\* GameDate.from_ordinal(n, ignore_leap=mode) on an ordinal of the caller's.
FromOrdinalOf ==
    /\ pc = "idle"
    /\ \E mode \in BOOLEAN : \E n \in OrdinalArgs(mode) :
          /\ ignore_leap' = mode
          /\ ordinal' = n
          /\ result' = from_ordinal(n, mode)
    /\ pc' = "from_ordinal"
    /\ UNCHANGED <<args, gd, days, other, text, campaignVars, engineVars>>

\* GameDate.from_ordinal(gd.to_ordinal(ignore_leap), ignore_leap)
FromOrdinalBack ==
    /\ pc = "to_ordinal"
    /\ pc' = "from_ordinal"
    /\ result' = from_ordinal(ordinal, ignore_leap)
    /\ UNCHANGED <<args, gd, ignore_leap, ordinal, days, other, text, campaignVars, engineVars>>

\* gd.add_days(n, ignore_leap=mode)
AddDays ==
    /\ pc = "constructed"
    /\ \E n \in AddDaysArgs, mode \in BOOLEAN :
          /\ ignore_leap' = mode
          /\ days' = n
          /\ result' = add_days(gd, n, mode)
    /\ pc' = "add_days"
    /\ UNCHANGED <<args, gd, ordinal, other, text, campaignVars, engineVars>>

\* gd.days_until(d, ignore_leap=mode)
DaysUntil ==
    /\ pc = "constructed"
    /\ \E d \in OtherArgs, mode \in BOOLEAN :
          /\ ignore_leap' = mode
          /\ other' = d
          /\ result' = days_until(gd, d, mode)
    /\ pc' = "days_until"
    /\ UNCHANGED <<args, gd, ordinal, days, text, campaignVars, engineVars>>

\* gd.to_iso()
ToIso ==
    /\ pc = "constructed"
    /\ pc' = "to_iso"
    /\ text' = to_iso(gd)
    /\ UNCHANGED <<args, gd, ignore_leap, ordinal, days, other, result,
                   campaignVars, engineVars>>

\* GameDate.fromiso(gd.to_iso())
FromIso ==
    /\ pc = "to_iso"
    /\ pc' = "fromiso"
    /\ result' = fromiso(text)
    /\ UNCHANGED <<args, gd, ignore_leap, ordinal, days, other, text,
                   campaignVars, engineVars>>

NextDate ==
    \/ Construct
    \/ ToIso
    \/ FromIso
    \/ ToOrdinal
    \/ FromOrdinalOf
    \/ FromOrdinalBack
    \/ AddDays
    \/ DaysUntil

SpecDate == Init /\ [][NextDate]_vars

\* ------------------------------------------------- Campaign operations

\* campaign.add_snapshot(s)
AddSnapshot(s) ==
    LET r == add_snapshot(snapshots, s)
    IN  /\ call' = s
        /\ raised' = r.raised
        /\ snapshots' = r.snapshots
        /\ UNCHANGED <<dateVars, saved, engineVars>>

NextCampaign == \E s \in Snapshots : AddSnapshot(s)

SpecCampaign == Init /\ [][NextCampaign]_vars

\* ------------------------------------------------- campaigns of the engine

\* The timelines built by n calls of add_snapshot, the i-th with id i.
RECURSIVE add_all(_)
add_all(seq) ==
    IF seq = <<>> THEN <<>>
    ELSE add_snapshot(add_all(SubSeq(seq, 1, Len(seq) - 1)), seq[Len(seq)]).snapshots

SnapshotSeqs(n) ==
    {[i \in 1..n |-> [id |-> i, date |-> f[i][1], filter_type |-> f[i][2]]] :
        f \in [1..n -> SnapshotDates \X FilterTypes]}

\* The campaigns the lookups are made on: every timeline of at most
\* MaxTimeline snapshots.
LookupCampaigns == UNION {SnapshotSeqs(n) : n \in 0..MaxTimeline}

\* The campaigns the engine is played on: an empty one, one that starts in
\* year 1 and one that starts BCE.
EngineCampaigns ==
    {<<>>,
     <<[id |-> 1, date |-> GameDate(2000, 2, 29), filter_type |-> "faith"],
       [id |-> 2, date |-> GameDate(1, 1, 1), filter_type |-> "realms"]>>,
     <<[id |-> 1, date |-> GameDate(1, 1, 1), filter_type |-> "realms"],
       [id |-> 2, date |-> GameDate(-1, 12, 31), filter_type |-> "realms"]>>}

\* What datetime.utcnow() can say.
UtcNow == {GameDate(2000, 1, 1)}

\* The dates given to seek, get_snapshot_for and next_snapshot_after.
SeekArgs ==
    {GameDate(-100, 3, 15), GameDate(1, 1, 1), GameDate(2000, 1, 1),
     GameDate(2000, 2, 28), GameDate(2000, 2, 29), GameDate(9999, 12, 31)}

QueryArgs ==
    {GameDate(-100, 3, 15), GameDate(-1, 12, 31), GameDate(1, 1, 1),
     GameDate(1000, 6, 15), GameDate(2000, 2, 29), GameDate(2000, 3, 1)}

\* The seconds given to tick.
TickArgs == {0, 1, MaxTickSeconds}

\* The units and values (in tenths of a day per second) given to
\* set_playback_speed: the engine's unit, the player window's three and one
\* that nothing knows.
KnownUnits == {"days_per_second", "days/sec", "months/sec", "years/sec"}

UnitArgs == {"days_per_second", "days/sec", "months/sec", "years/sec",
             "lightyears/sec"}

ValueArgs == {4, 5, 10, 3650}

\* The last call was the one of that name.
IsCall(name) == eop # None /\ eop.name = name

\* campaign = new_campaign(...); campaign.add_snapshot(s) for each s of seq.
LoadCampaign(campaigns) ==
    /\ eop = None
    /\ \E seq \in campaigns : snapshots' = add_all(seq)
    /\ eop' = [name |-> "new_campaign", arg |-> None]
    /\ UNCHANGED <<dateVars, call, raised, saved, engine, playback_speed, vm,
                   eret, emitted, signals, ncalls>>

\* TemporalEngine(campaign=campaign, ...), and the view-model around it.
NewEngine ==
    /\ eop # None
    /\ eop.name = "new_campaign"
    /\ \E on_time_update \in BOOLEAN, mode \in BOOLEAN, today \in UtcNow :
          LET e == TemporalEngine(snapshots, on_time_update, mode, today)
          IN  /\ engine' = IF e = ValueError THEN None ELSE e
              /\ eret' = IF e = ValueError THEN ValueError ELSE None
              /\ eop' = [name |-> "TemporalEngine",
                         arg |-> <<on_time_update, mode>>]
    /\ UNCHANGED <<dateVars, campaignVars, playback_speed, vm, emitted,
                   signals, ncalls>>

\* A call on the engine that also takes the first record off the timeline.
EngineCall_dropping(name, arg, r) ==
    /\ eop' = [name |-> name, arg |-> arg]
    /\ engine' = r.engine
    /\ eret' = r.ret
    /\ emitted' = r.emitted
    /\ signals' = <<>>
    /\ ncalls' = ncalls + 1
    /\ snapshots' = IF snapshots = <<>> THEN snapshots ELSE Tail(snapshots)
    /\ UNCHANGED <<dateVars, call, raised, saved, vm>>

\* A call on the engine that left the outcome r: the engine reads
\* campaign.snapshots and writes none of the campaign's records.
EngineCall(name, arg, r) ==
    /\ eop' = [name |-> name, arg |-> arg]
    /\ engine' = r.engine
    /\ eret' = r.ret
    /\ emitted' = r.emitted
    /\ signals' = <<>>
    /\ ncalls' = ncalls + 1
    /\ UNCHANGED <<dateVars, campaignVars, vm>>

\* engine.play()
Play ==
    /\ engine # None /\ ncalls < MaxCalls
    /\ EngineCall("play", None, play(engine))
    /\ UNCHANGED playback_speed

\* engine.pause()
Pause ==
    /\ engine # None /\ ncalls < MaxCalls
    /\ EngineCall("pause", None, pause(engine))
    /\ UNCHANGED playback_speed

\* engine.set_playback_speed(units, value)
SetPlaybackSpeed ==
    /\ engine # None /\ ncalls < MaxCalls
    /\ \E units \in UnitArgs, value \in ValueArgs :
          /\ playback_speed' = [units |-> units, value |-> value]
          /\ EngineCall("set_playback_speed", <<units, value>>,
                        Outcome(engine, None, <<>>))

\* engine.seek(to_date)
Seek ==
    /\ engine # None /\ ncalls < MaxCalls
    /\ \E to_date \in SeekArgs : EngineCall("seek", to_date, seek(engine, to_date))
    /\ UNCHANGED playback_speed

\* engine.tick(dt_seconds)
Tick ==
    /\ engine # None /\ ncalls < MaxCalls
    /\ \E dt_seconds \in TickArgs :
          EngineCall("tick", dt_seconds, tick(engine, playback_speed, dt_seconds))
    /\ UNCHANGED playback_speed

\* engine.step_to_next_snapshot(filter_type)
StepToNextSnapshot ==
    /\ engine # None /\ ncalls < MaxCalls
    /\ \E filter_type \in FilterArgs :
          EngineCall("step_to_next_snapshot", filter_type,
                     step_to_next_snapshot(engine, snapshots, filter_type))
    /\ UNCHANGED playback_speed

\* A call on the view-model that left the outcome r.
VmCall(name, arg, r) ==
    /\ eop' = [name |-> name, arg |-> arg]
    /\ engine' = r.engine
    /\ vm' = r.vm
    /\ eret' = r.ret
    /\ emitted' = r.emitted
    /\ signals' = r.signals
    /\ ncalls' = ncalls + 1
    /\ UNCHANGED <<dateVars, campaignVars>>

\* PlayerViewModel.tick(dt_seconds)
VmTick ==
    /\ engine # None /\ ncalls < MaxCalls
    /\ \E dt_seconds \in TickArgs :
          VmCall("vm.tick", dt_seconds,
                 vm_tick(vm, engine, snapshots, playback_speed, dt_seconds))
    /\ UNCHANGED playback_speed

\* engine.get_snapshot_for(d, filter_type, prefer_latest_before), d a
\* GameDate or what get_current_date() returned.
GetSnapshotFor ==
    /\ engine # None
    /\ \E d \in QueryArgs \cup {get_current_date(engine)},
          filter_type \in FilterArgs, prefer_latest_before \in BOOLEAN :
          /\ eop' = [name |-> "get_snapshot_for",
                     arg |-> <<d, filter_type, prefer_latest_before>>]
          /\ eret' = get_snapshot_for(snapshots, d, filter_type,
                                      prefer_latest_before)
    /\ emitted' = <<>>
    /\ signals' = <<>>
    /\ UNCHANGED <<dateVars, campaignVars, engine, playback_speed, vm, ncalls>>

\* engine.next_snapshot_after(d, filter_type)
NextSnapshotAfter ==
    /\ engine # None
    /\ \E d \in QueryArgs \cup {get_current_date(engine)},
          filter_type \in FilterArgs :
          /\ eop' = [name |-> "next_snapshot_after", arg |-> <<d, filter_type>>]
          /\ eret' = next_snapshot_after(snapshots, d, filter_type)
    /\ emitted' = <<>>
    /\ signals' = <<>>
    /\ UNCHANGED <<dateVars, campaignVars, engine, playback_speed, vm, ncalls>>

\* campaign.to_dict()
ToDict ==
    /\ IsCall("new_campaign")
    /\ saved' = Campaign_to_dict(snapshots)
    /\ eop' = [name |-> "to_dict", arg |-> None]
    /\ UNCHANGED <<dateVars, snapshots, call, raised, engine, playback_speed,
                   vm, eret, emitted, signals, ncalls>>

\* Campaign.from_dict(data) of what to_dict returned
FromDict ==
    /\ IsCall("to_dict")
    /\ snapshots' = Campaign_from_dict(saved)
    /\ eop' = [name |-> "from_dict", arg |-> None]
    /\ UNCHANGED <<dateVars, call, raised, saved, engine, playback_speed, vm,
                   eret, emitted, signals, ncalls>>

\* The category texts a persisted record carries: values of the
\* enumeration, texts that are not, the empty text and the missing key.
CategoryTexts == {"realms", "custom", "bogus", "CUSTOM", "", "None"}

\* The persisted forms of single records.
PersistedSnapshots ==
    {[id |-> 1, date |-> to_iso(d), filter_type |-> c] :
        d \in SnapshotDates, c \in CategoryTexts}

\* Snapshot.from_dict(data) of a persisted record
SnapshotFromDict ==
    /\ eop = None
    /\ \E data \in PersistedSnapshots :
          /\ eret' = Snapshot_from_dict(data)
          /\ eop' = [name |-> "Snapshot.from_dict", arg |-> data]
    /\ UNCHANGED <<dateVars, campaignVars, engine, playback_speed, vm,
                   emitted, signals, ncalls>>

\* campaign.find_snapshot(d, filter_type) on the campaign as loaded
FindSnapshot ==
    /\ IsCall("new_campaign")
    /\ \E d \in QueryArgs, filter_type \in FilterArgs :
          /\ eret' = find_snapshot(snapshots, d, filter_type)
          /\ eop' = [name |-> "find_snapshot", arg |-> <<d, filter_type>>]
    /\ UNCHANGED <<dateVars, campaignVars, engine, playback_speed, vm,
                   emitted, signals, ncalls>>

\* campaign.get_latest_before(d, filter_type) on the campaign as loaded
GetLatestBefore ==
    /\ IsCall("new_campaign")
    /\ \E d \in QueryArgs, filter_type \in FilterArgs :
          /\ eret' = get_latest_before(snapshots, d, filter_type)
          /\ eop' = [name |-> "get_latest_before", arg |-> <<d, filter_type>>]
    /\ UNCHANGED <<dateVars, campaignVars, engine, playback_speed, vm,
                   emitted, signals, ncalls>>

NextLookup ==
    \/ LoadCampaign(LookupCampaigns)
    \/ SnapshotFromDict
    \/ FindSnapshot
    \/ GetLatestBefore
    \/ ToDict
    \/ FromDict
    \/ NewEngine
    \/ GetSnapshotFor
    \/ NextSnapshotAfter

SpecLookup == Init /\ [][NextLookup]_vars

NextEngine ==
    \/ LoadCampaign(EngineCampaigns)
    \/ NewEngine
    \/ Play
    \/ Pause
    \/ SetPlaybackSpeed
    \/ Seek
    \/ Tick
    \/ StepToNextSnapshot
    \/ VmTick

SpecEngine == Init /\ [][NextEngine]_vars

\* The dates of the records added to a campaign whose engine exists: the
\* last day BCE, a day of year 0 and the first day CE.
LateDates == {GameDate(-1, 12, 31), GameDate(0, 1, 1), GameDate(1, 1, 1)}

\* The timelines added to it: every one of one or two records.
LateCampaigns ==
    UNION {{[i \in 1..n |-> [id |-> i, date |-> f[i][1], filter_type |-> f[i][2]]] :
               f \in [1..n -> LateDates \X FilterTypes]} : n \in 1..(MaxTimeline - 1)}

\* campaign.add_snapshot(s) for each s of a sequence, on the campaign of an
\* engine that was created while the campaign was empty.
AddSnapshotsLater ==
    /\ IsCall("TemporalEngine")
    /\ engine # None
    /\ snapshots = <<>>
    /\ \E seq \in LateCampaigns : snapshots' = add_all(seq)
    /\ eop' = [name |-> "add_snapshot", arg |-> None]
    /\ UNCHANGED <<dateVars, call, raised, saved, engine, playback_speed, vm,
                   eret, emitted, signals, ncalls>>

NextAgree ==
    \/ LoadCampaign({<<>>})
    \/ NewEngine
    \/ AddSnapshotsLater
    \/ GetSnapshotFor

SpecAgree == Init /\ [][NextAgree]_vars

\* The filter values given to select_filter: none, two of the enumeration
\* and a text that is no value of it.
SelectArgs == {NoFilter, "realms", "faith", "bogus"}

\* PlayerViewModel.play()
VmPlay ==
    /\ engine # None /\ ncalls < MaxCalls
    /\ VmCall("vm.play", None, vm_play(vm, engine))
    /\ UNCHANGED playback_speed

\* PlayerViewModel.seek(to_date)
VmSeek ==
    /\ engine # None /\ ncalls < MaxCalls
    /\ \E to_date \in SeekArgs :
          VmCall("vm.seek", to_date, vm_seek(vm, engine, snapshots, to_date))
    /\ UNCHANGED playback_speed

\* PlayerViewModel.select_filter(filter_value)
VmSelectFilter ==
    /\ engine # None /\ ncalls < MaxCalls
    /\ \E filter_value \in SelectArgs :
          VmCall("vm.select_filter", filter_value,
                 vm_select_filter(vm, engine, snapshots, filter_value))
    /\ UNCHANGED playback_speed

\* PlayerViewModel.step_to_next_snapshot()
VmStepToNextSnapshot ==
    /\ engine # None /\ ncalls < MaxCalls
    /\ VmCall("vm.step_to_next_snapshot", None,
              vm_step_to_next_snapshot(vm, engine, snapshots))
    /\ UNCHANGED playback_speed

NextViewModel ==
    \/ LoadCampaign(EngineCampaigns)
    \/ NewEngine
    \/ VmPlay
    \/ VmSeek
    \/ VmTick
    \/ VmSelectFilter
    \/ VmStepToNextSnapshot

SpecViewModel == Init /\ [][NextViewModel]_vars

\* The dates playback is followed from: tick is repeated until current has
\* left the date the engine was created at.
PlaybackDates == {ymd(d) : d \in UtcNow}

\* The tick that follows left the outcome r.
TickedAgain(r) ==
    /\ engine' = r.engine
    /\ eret' = r.ret
    /\ emitted' = r.emitted
    /\ UNCHANGED <<dateVars, campaignVars, playback_speed, vm, eop, signals,
                   ncalls>>

\* The player window's timer: while the engine is playing, every timeout
\* calls engine.tick with the same interval as the tick before.
TickAgain ==
    /\ IsCall("tick")
    /\ eret = None
    /\ engine.playing
    /\ eop.arg > 0
    /\ ymd(get_current_date(engine)) \in PlaybackDates
    /\ TickedAgain(tick(engine, playback_speed, eop.arg))

NextPlayback ==
    \/ LoadCampaign({<<>>})
    \/ NewEngine
    \/ SetPlaybackSpeed
    \/ Play
    \/ Tick
    \/ TickAgain

\* The timer keeps firing while the engine plays.
SpecPlayback == Init /\ [][NextPlayback]_vars /\ WF_vars(TickAgain)

\* -------------------------------------------------------------- claims

\* C1: Real round trip: for every date the constructor accepts,
\* from_ordinal(d.to_ordinal(ignore_leap=False), ignore_leap=False) = d.
RealRoundTrip ==
    (pc = "from_ordinal" /\ IsDate(gd) /\ ~ignore_leap) => result = gd

\* C2: NoLeap round trip: for every date the constructor accepts whose day is
\* at most the fixed length of its month (February = 28),
\* from_ordinal(d.to_ordinal(ignore_leap=True), ignore_leap=True) = d.
NoLeapRoundTrip ==
    (/\ pc = "from_ordinal"
     /\ IsDate(gd)
     /\ ignore_leap
     /\ gd.day <= GREGORIAN_MONTH_LENGTHS[gd.month]) => result = gd

\* C3: from_ordinal is total and a right inverse of to_ordinal in both modes:
\* for every ordinal n it returns a date that passes the constructor's
\* validation, and that date's to_ordinal in the same mode is n.
FromOrdinalRightInverse ==
    /\ pc = "from_ordinal" =>
          /\ IsDate(result)
          /\ post_init_ok(result.year, result.month, result.day)
          /\ to_ordinal(result, ignore_leap) = ordinal
    /\ pc = "add_days" =>
          /\ IsDate(result)
          /\ post_init_ok(result.year, result.month, result.day)
          /\ to_ordinal(result, ignore_leap) = to_ordinal(gd, ignore_leap) + days

\* C3's case: a negative ordinal in the no-leap mode (the last day of year -1).
FromOrdinalNegativeReached ==
    /\ pc = "from_ordinal"
    /\ gd = None
    /\ ignore_leap
    /\ ordinal = -1
    /\ result = GameDate(-1, 12, 31)

\* C4: monotonicity: for constructed dates d1 < d2 (as GameDate compares them),
\* d1.to_ordinal(mode) < d2.to_ordinal(mode), in either mode.
OrdinalMonotonic ==
    (pc = "days_until" /\ GameDate_lt(gd, other)) =>
        to_ordinal(gd, ignore_leap) < to_ordinal(other, ignore_leap)

\* C5: no year zero: the day after -1-12-31 is 1-01-01 in the Real mode (and
\* -1-12-30 plus 5 days is 1-01-04, and -1-12-31 is 1 day before 1-01-01), and
\* no date from_ordinal returns, in either mode, has year 0.
NoYearZero ==
    /\ (pc = "add_days" /\ ~ignore_leap /\ gd = GameDate(-1, 12, 31) /\ days = 1)
          => result = GameDate(1, 1, 1)
    /\ (pc = "add_days" /\ ~ignore_leap /\ gd = GameDate(-1, 12, 30) /\ days = 5)
          => result = GameDate(1, 1, 4)
    /\ (/\ pc = "days_until"
        /\ ~ignore_leap
        /\ gd = GameDate(-1, 12, 31)
        /\ other = GameDate(1, 1, 1)) => result = 1
    /\ pc \in {"from_ordinal", "add_days"} => IsDate(result) /\ result.year # 0

\* C5's case: one day added to -1-12-31 in the Real mode.
BoundaryCrossed ==
    /\ pc = "add_days"
    /\ ~ignore_leap
    /\ gd = GameDate(-1, 12, 31)
    /\ days = 1
    /\ result = GameDate(1, 1, 1)

\* C6: NoLeap year length: for every Y, zero and negative included,
\* GameDate(Y,1,1).days_until(GameDate(Y+1,1,1), ignore_leap=True) = 365.
NoLeapYearLength ==
    (/\ pc = "days_until"
     /\ ignore_leap
     /\ gd.month = 1
     /\ gd.day = 1
     /\ other = GameDate(gd.year + 1, 1, 1)) => result = 365

\* The year after Y in the historical numbering.
FollowingYear(Y) == IF Y = -1 THEN 1 ELSE Y + 1

\* The Gregorian rule on the astronomical number of Y (Y + 1 for negative Y).
AstronomicalLeap(Y) ==
    LET a == IF Y < 0 THEN Y + 1 ELSE Y
    IN  a % 4 = 0 /\ (a % 100 # 0 \/ a % 400 = 0)

\* C7: Real year length: from January 1 of Y to January 1 of the following
\* year there are 366 days when is_gregorian_leap(Y) and 365 otherwise, and
\* is_gregorian_leap is the Gregorian rule on Y's astronomical number; 2000
\* gives 366 and 2001 gives 365.
RealYearLength ==
    (/\ pc = "days_until"
     /\ ~ignore_leap
     /\ gd.month = 1
     /\ gd.day = 1
     /\ other = GameDate(FollowingYear(gd.year), 1, 1)) =>
        /\ result = IF is_gregorian_leap(gd.year) THEN 366 ELSE 365
        /\ is_gregorian_leap(gd.year) <=> AstronomicalLeap(gd.year)
        /\ gd.year = 2000 => result = 366
        /\ gd.year = 2001 => result = 365

\* C7's case: the length of the year 2000.
LeapYear2000Measured ==
    /\ pc = "days_until"
    /\ ~ignore_leap
    /\ gd = GameDate(2000, 1, 1)
    /\ other = GameDate(2001, 1, 1)
    /\ result = 366

\* The length of a month under the Real leap rule.
RealMonthLength(year, month) ==
    IF month = 2 THEN (IF is_gregorian_leap(year) THEN 29 ELSE 28)
    ELSE IF month \in {4, 6, 9, 11} THEN 30
    ELSE 31

InRealRange(d) ==
    /\ 1 <= d.month /\ d.month <= 12
    /\ 1 <= d.day /\ d.day <= RealMonthLength(d.year, d.month)

\* C8: construction is rejected exactly when month is outside 1..12 or day is
\* outside 1..L, L the month's length under the Real leap rule; every
\* GameDate that exists is within these ranges, whatever mode produced it.
ConstructionValidation ==
    /\ pc \in {"constructed", "rejected"} =>
          (pc = "rejected" <=>
              \/ ~(1 <= args[2] /\ args[2] <= 12)
              \/ ~(1 <= args[3] /\ args[3] <= RealMonthLength(args[1], args[2])))
    /\ IsDate(gd) => InRealRange(gd)
    /\ IsDate(other) => InRealRange(other)
    /\ (pc \in {"from_ordinal", "add_days"} /\ IsDate(result)) => InRealRange(result)

\* C8's case: February 29 of a century year that is not a leap year.
CenturyLeapDayRejected ==
    /\ pc = "rejected"
    /\ args = <<100, 2, 29>>

Count(list, x) == Cardinality({i \in 1..Len(list) : list[i] = x})

\* C9: after any sequence of add_snapshot calls the snapshots are sorted
\* ascending by the Real ordinal of their dates and no two share an id.
TimelineSorted ==
    /\ \A i \in 1..(Len(snapshots) - 1) :
          sort_key(snapshots[i]) <= sort_key(snapshots[i + 1])
    /\ \A i, j \in 1..Len(snapshots) :
          i # j => snapshots[i].id # snapshots[j].id

\* C9's case: the snapshot added last has the earliest date and stands first
\* of three.
LastAddedSortedFirst ==
    /\ Len(snapshots) = 3
    /\ ~raised
    /\ call = snapshots[1]
    /\ call.date = GameDate(-1, 12, 31)
    /\ snapshots[2].date = GameDate(1, 1, 1)

\* C10: add_snapshot with an id already present raises and leaves the list
\* as it was; with a fresh id it does not raise and the list holds the
\* previous records and the new one, nothing else.
InsertRejectsDuplicates ==
    [][LET s == call'
       IN  IF \E i \in 1..Len(snapshots) : snapshots[i].id = s.id
           THEN raised' /\ snapshots' = snapshots
           ELSE /\ ~raised'
                /\ Len(snapshots') = Len(snapshots) + 1
                /\ \A x \in Snapshots :
                      Count(snapshots', x) =
                          Count(snapshots, x) + (IF x = s THEN 1 ELSE 0)]_vars

\* C10's case: a call with an id already present and other content was
\* rejected.
DuplicateRejected ==
    /\ raised
    /\ Len(snapshots) = 2
    /\ call.id = snapshots[1].id
    /\ call # snapshots[1]

\* The records of the timeline that match the category c, by index.
Matching(c) ==
    {i \in 1..Len(snapshots) : c = NoFilter \/ snapshots[i].filter_type = c}

Called(name) == eop' # None /\ eop'.name = name /\ ncalls' = ncalls + 1

\* C12: seek(d), whether the engine is Paused or Playing and for every valid
\* date d (any year the date type allows, BCE years included), sets the
\* engine's current date to exactly d and leaves the playing flag and the
\* playback speed unchanged; get_current_date() then equals d.
SeekSetsCurrent ==
    [][Called("seek") =>
          /\ ymd(get_current_date(engine')) = ymd(eop'.arg)
          /\ engine'.playing = engine.playing
          /\ playback_speed' = playback_speed]_vars

\* C13 as stated: tick(dt) on a Paused engine is a no-op: for every dt and
\* every speed, current is left unchanged and no time-update notification is
\* emitted.
TickNoOpWhilePaused ==
    [][(Called("tick") /\ ~engine.playing) =>
          /\ engine'.current_datetime = engine.current_datetime
          /\ emitted' = <<>>]_vars

\* C13: PlayerViewModel.tick(dt) is a no-op while the engine is Paused: for
\* every dt and every speed it leaves the engine and the view-model unchanged,
\* raises nothing and emits neither a time-update notification nor a signal;
\* through it, current changes only while playing is true.
VmTickNoOpWhilePaused ==
    [][Called("vm.tick") =>
          /\ ~engine.playing =>
                /\ engine' = engine
                /\ vm' = vm
                /\ eret' = None
                /\ emitted' = <<>>
                /\ signals' = <<>>
          /\ engine'.current_datetime # engine.current_datetime => engine.playing]_vars

\* PlayerViewModel.tick was called with a positive dt on a Paused engine whose
\* speed is in the unit the engine accepts.
VmTickedWhilePaused ==
    /\ IsCall("vm.tick")
    /\ ~engine.playing
    /\ eop.arg > 0
    /\ playback_speed.units = "days_per_second"
    /\ playback_speed.value > 0

\* C14: Whole-day playback equals calendar addition: on an engine whose speed
\* was set with set_playback_speed("days/sec", r), seek(d); tick(dt) with
\* r * dt a whole number k >= 0 leaves current = d.add_days(k, mode) for the
\* engine's mode.
WholeDayPlayback ==
    [][(/\ IsCall("seek")
        /\ eret = None
        /\ playback_speed.units = "days/sec"
        /\ Called("tick")
        /\ (playback_speed.value * eop'.arg) % 10 = 0) =>
          LET d == GameDate(eop.arg.year, eop.arg.month, eop.arg.day)
              k == (playback_speed.value * eop'.arg) \div 10
          IN  ymd(get_current_date(engine')) =
                 ymd(add_days(d, k, engine.ignore_leap_years))]_vars

\* C15: a tick under a playback speed unit that nothing recognises fails with
\* an error and mutates nothing: current, playing and the stored speed are as
\* before the call and no time-update notification is emitted; the engine
\* stays usable: a seek that follows sets the current date.
UnknownUnitTickFails ==
    [][/\ (Called("tick") /\ playback_speed.units \notin KnownUnits) =>
             /\ eret' = NotImplementedError
             /\ engine' = engine
             /\ playback_speed' = playback_speed
             /\ emitted' = <<>>
       /\ (/\ IsCall("tick")
           /\ eret = NotImplementedError
           /\ Called("seek")
           /\ date(eop'.arg.year, eop'.arg.month, eop'.arg.day) # ValueError) =>
             /\ eret' = None
             /\ ymd(get_current_date(engine')) = ymd(eop'.arg)]_vars

\* A tick on a Playing engine failed for its unit.
UnknownUnitTickRaised ==
    /\ IsCall("tick")
    /\ eop.arg > 0
    /\ playback_speed.units \notin KnownUnits
    /\ eret = NotImplementedError
    /\ engine.playing

\* C16: step_to_next_snapshot(category): when some record matching the
\* category is dated strictly after current, the engine seeks to the earliest
\* such record (current becomes its date, which is returned, and playing is
\* unchanged); when there is none it returns None and leaves current and
\* playing unchanged.
StepSeeksEarliestAfter ==
    [][Called("step_to_next_snapshot") =>
          LET cur   == get_current_date(engine)
              after == {i \in Matching(eop'.arg) :
                           GameDate_lt(cur, snapshots[i].date)}
          IN  IF after # {}
              THEN \E i \in after :
                      /\ \A j \in after :
                            GameDate_le(snapshots[i].date, snapshots[j].date)
                      /\ eret' = snapshots[i].date
                      /\ ymd(get_current_date(engine')) = ymd(snapshots[i].date)
                      /\ engine'.playing = engine.playing
              ELSE /\ eret' = None
                   /\ engine' = engine]_vars

\* C17: play() leads to Playing and pause() to Paused from either state, and
\* neither changes current or the playback speed.
PlayPauseFrame ==
    [][/\ Called("play") =>
             /\ engine' = [engine EXCEPT !.playing = TRUE]
             /\ playback_speed' = playback_speed
       /\ Called("pause") =>
             /\ engine' = [engine EXCEPT !.playing = FALSE]
             /\ playback_speed' = playback_speed]_vars

\* play() was called on an engine whose current datetime is within a day and
\* whose speed is not the default one.
PlayedWithinADay ==
    /\ IsCall("play")
    /\ engine.playing
    /\ engine.current_datetime.tenths # 0
    /\ playback_speed # default_playback_speed

\* C18: Initial engine state: an engine created over a timeline is Paused,
\* and when the timeline is not empty its current date is the date of the
\* earliest record, for every timeline, those whose earliest record has a
\* negative year included.
InitialEngineState ==
    IsCall("TemporalEngine") =>
        /\ engine # None
        /\ ~engine.playing
        /\ snapshots # <<>> =>
              /\ ymd(get_current_date(engine)) = ymd(snapshots[1].date)
              /\ \A i \in 1..Len(snapshots) :
                    sort_key(snapshots[1]) <= sort_key(snapshots[i])

\* C19: Time-update notification: on_time_update is invoked exactly once,
\* with the engine's new current date, by every successful seek and every
\* successful tick (the seek of a successful step_to_next_snapshot included),
\* and never by play, pause, a failed tick or seek, or a step that finds no
\* record.
TimeUpdateNotification ==
    (engine # None /\ engine.on_time_update) =>
        /\ (IsCall("seek") \/ IsCall("tick")) =>
              emitted = IF eret = None THEN <<get_current_date(engine)>> ELSE <<>>
        /\ IsCall("step_to_next_snapshot") =>
              emitted = IF IsGameDate(eret) THEN <<get_current_date(engine)>>
                                            ELSE <<>>
        /\ (IsCall("play") \/ IsCall("pause") \/ IsCall("set_playback_speed")) =>
              emitted = <<>>

\* A tick moved the current date and on_time_update was given the new one.
TickNotified ==
    /\ IsCall("tick")
    /\ eop.arg > 0
    /\ eret = None
    /\ engine.on_time_update
    /\ emitted = <<get_current_date(engine)>>
    /\ \E to_date \in SeekArgs : ymd(get_current_date(engine)) # ymd(to_date)

\* C20: Text round trip: for every valid date d whose year has at most 5
\* digits, GameDate.fromiso(d.to_iso()) = d, to_iso emitting '-' for a
\* negative year, the year zero-padded to at least 4 digits, and the month
\* and the day in 2 digits each after a '-'.
TextRoundTrip ==
    (pc \in {"to_iso", "fromiso"} /\ -99999 <= gd.year /\ gd.year <= 99999) =>
        LET body == IF gd.year < 0 THEN Tail(text) ELSE text
            n    == Len(body)
            yy   == IF gd.year < 0 THEN -gd.year ELSE gd.year
        IN  /\ gd.year < 0 => text[1] = "-"
            /\ n >= 10
            /\ \A i \in 1..n : IF i \in {n - 5, n - 2} THEN body[i] = "-"
                                                       ELSE IsDigit(body[i])
            /\ n > 10 => body[1] # "0"
            /\ int_of(SubSeq(body, 1, n - 6)) = yy
            /\ int_of(SubSeq(body, n - 4, n - 3)) = gd.month
            /\ int_of(SubSeq(body, n - 1, n)) = gd.day
            /\ pc = "fromiso" => result = gd

\* A BCE date of a five-digit year came back from its text.
WideBceYearRead ==
    /\ pc = "fromiso"
    /\ gd.year < -9999
    /\ Len(text) = 12
    /\ result = gd

\* A campaign written with to_dict and read back with from_dict has the same
\* snapshots in the same order.
CampaignRoundTrip ==
    IsCall("from_dict") =>
        /\ Len(snapshots) = Len(saved)
        /\ \A i \in 1..Len(saved) : Snapshot_to_dict(snapshots[i]) = saved[i]
        /\ \A i \in 1..Len(saved) : to_iso(fromiso(saved[i].date)) = saved[i].date


\* C21: an unknown category text is tolerated: Snapshot.from_dict of a
\* persisted record never fails, keeps a category text of the closed set
\* and gives every other text the category custom.
UnknownCategoryTolerated ==
    IsCall("Snapshot.from_dict") =>
        /\ eret # ValueError
        /\ eret.filter_type = IF eop.arg.filter_type \in FilterTypeValues
                              THEN eop.arg.filter_type ELSE "custom"

\* C22: whenever a tick advances time, the new current is
\* from_ordinal(R, mode) with R the ordinal of current in the engine's mode
\* plus the advance, rounded half to even, in Real and in NoLeap mode alike,
\* and no fraction of a day is carried to the next tick.
TickRounding ==
    [][(/\ Called("tick")
        /\ eret' = None
        /\ playback_speed.value * eop'.arg > 0) =>
          LET mode == engine.ignore_leap_years
              cur  == get_current_date(engine)
              R    == round_tenths(
                         to_ordinal(GameDate(cur.year, cur.month, cur.day), mode) * 10
                         + playback_speed.value * eop'.arg)
          IN  /\ ymd(get_current_date(engine')) = ymd(from_ordinal(R, mode))
              /\ engine'.current_datetime.tenths = 0]_vars

\* C23: tick accepts the three speed units and converts them to days per
\* second: days-per-second is the magnitude, months-per-second the magnitude
\* times 30, years-per-second the magnitude times 365 in NoLeap mode and
\* times 365.2425 in Real mode; current advances by rate * dt days.  (The
\* advance is in tenths of a day, the Real year's cut to a tenth.)
UnitConversion ==
    [][(/\ Called("tick")
        /\ playback_speed.units \in {"days_per_second", "months/sec", "years/sec"}) =>
          LET v == playback_speed.value * eop'.arg
              days_advance ==
                  IF playback_speed.units = "days_per_second" THEN v
                  ELSE IF playback_speed.units = "months/sec" THEN v * 30
                  ELSE IF engine.ignore_leap_years THEN v * 365
                  ELSE (v * 3652425) \div 10000
          IN  /\ eret' # NotImplementedError
              /\ eret' = None =>
                    engine'.current_datetime = advance(engine, days_advance)]_vars

\* The records get_latest_before(d, c) chooses from: those of category c
\* (all without c) whose Real ordinal is at most d's.
Qualifying(d, c) ==
    {i \in Matching(c) :
        to_ordinal(snapshots[i].date, FALSE) <= to_ordinal(d, FALSE)}

\* C24: campaign.get_latest_before(d, c) returns None when no record of
\* category c has a Real ordinal at or before d's, and otherwise the record
\* with the greatest such ordinal, the one at the lowest position of the
\* snapshots list when several share it.
LatestBeforeDeterministic ==
    IsCall("get_latest_before") =>
        LET Q      == Qualifying(eop.arg[1], eop.arg[2])
            key(i) == to_ordinal(snapshots[i].date, FALSE)
        IN  IF Q = {}
            THEN eret = None
            ELSE \E i \in Q :
                    /\ eret = snapshots[i]
                    /\ \A j \in Q : key(j) <= key(i)
                    /\ \A j \in Q : key(j) = key(i) => i <= j

\* get_latest_before returned the first of two records that share the
\* greatest ordinal at or before the date asked for.
LatestBeforeTie ==
    /\ IsCall("get_latest_before")
    /\ eret # None
    /\ \E i, j \in Qualifying(eop.arg[1], eop.arg[2]) :
          /\ i < j
          /\ eret = snapshots[i]
          /\ snapshots[j].date = snapshots[i].date
          /\ \E k \in Qualifying(eop.arg[1], eop.arg[2]) :
                GameDate_lt(snapshots[k].date, snapshots[i].date)

\* The calls the engine answers without writing the timeline.
ReadOnlyCalls ==
    {"play", "pause", "seek", "tick", "step_to_next_snapshot",
     "get_snapshot_for", "next_snapshot_after"}

Ticking ==
    /\ IsCall("tick")
    /\ eret = None
    /\ engine.playing
    /\ playback_speed.value * eop.arg > 0

\* C26: playback makes progress: while the engine is Playing with a positive
\* rate, repeating tick with the same dt > 0 eventually changes current to a
\* later date, for every positive advance per tick, those under half a day
\* included, in NoLeap and in Real mode.
PlaybackProgress ==
    \A d \in UtcNow :
        (Ticking /\ ymd(get_current_date(engine)) = ymd(d))
            ~> (~Ticking \/ GameDate_lt(d, get_current_date(engine)))

\* The id of the record the timeline resolves for the date of engine e under
\* the filter of view-model v, NoId when nothing resolves.
ResolvedId(e, v) ==
    LET cur  == get_current_date(e)
        snap == get_snapshot_for(snapshots, GameDate(cur.year, cur.month, cur.day),
                                 v.current_filter, TRUE)
    IN  IF snap = None THEN NoId ELSE snap.id

\* C27: after every PlayerViewModel operation that can change the date or
\* the filter (seek, a tick while playing, step_to_next_snapshot and
\* select_filter with any argument, None included), _current_snapshot_id is
\* the id of the record resolved for the current date and the selected
\* filter, or None when nothing resolves, and snapshot_changed is emitted
\* exactly when that id changes.
ViewModelResolutionCurrent ==
    [][(\/ Called("vm.seek")
        \/ Called("vm.tick") /\ engine.playing
        \/ Called("vm.step_to_next_snapshot")
        \/ Called("vm.select_filter")) =>
          /\ vm'.current_snapshot_id = ResolvedId(engine', vm')
          /\ (\E i \in 1..Len(signals') : signals'[i].signal = "snapshot_changed")
                <=> vm'.current_snapshot_id # vm.current_snapshot_id]_vars

\* C28: a tick that advances by zero days (dt = 0 or speed 0) leaves current
\* unchanged, in both modes and for every date that seek accepts, February 29
\* of a Real leap year in NoLeap mode included.
ZeroTickLeavesCurrent ==
    [][(Called("tick") /\ playback_speed.value * eop'.arg = 0) =>
          engine'.current_datetime = engine.current_datetime]_vars

\* C29: the engine's lookup and the campaign's lookups agree: for every
\* timeline built with add_snapshot, every date d and every optional
\* category c, engine.get_snapshot_for(d, c, prefer_latest_before=True)
\* returns the record campaign.find_snapshot(d, c) returns when that is not
\* None, and otherwise the record campaign.get_latest_before(d, c) returns.
LookupsAgree ==
    (/\ IsCall("get_snapshot_for")
     /\ IsGameDate(eop.arg[1])
     /\ eop.arg[3]) =>
        eret = IF find_snapshot(snapshots, eop.arg[1], eop.arg[2]) # None
               THEN find_snapshot(snapshots, eop.arg[1], eop.arg[2])
               ELSE get_latest_before(snapshots, eop.arg[1], eop.arg[2])

\* C30: stepping through a fixed timeline terminates: every
\* step_to_next_snapshot either returns None and leaves current where it is,
\* or succeeds and moves current strictly forward to the date of a record, so
\* that a timeline of N records allows at most N successful steps and no date
\* is visited twice; the playing flag takes no part in it.
SteppingTerminates ==
    [][Called("step_to_next_snapshot") =>
          /\ engine'.playing = engine.playing
          /\ \/ /\ eret' = None
                /\ engine'.current_datetime = engine.current_datetime
             \/ /\ IsGameDate(eret')
                /\ \E i \in 1..Len(snapshots) : snapshots[i].date = eret'
                /\ ymd(get_current_date(engine')) = ymd(eret')
                /\ GameDate_lt(get_current_date(engine), eret')]_vars

====
